---------------------------- MODULE Spec2Model ----------------------------
(***************************************************************************)
(* Jobvago discovery-and-dispatch pipeline.                                *)
(*                                                                         *)
(* The scheduled orchestrators (ScheduledScraper in function_app.py and    *)
(* main in run_scraper.py), the pagination state machine of                *)
(* InternshalaScraper.discover_jobs / _parse_page, and the batching loop   *)
(* of send_jobs_to_queue, as one state machine with a single flow of       *)
(* control (pc).  The browser, the target site and the queue transport are *)
(* the environment: every outcome they can produce is a nondeterministic   *)
(* choice of the action that calls them.                                   *)
(***************************************************************************)
EXTENDS Integers, Sequences, FiniteSets, TLC

(***************************************************************************)
(* Bounds of the model.                                                    *)
(***************************************************************************)
\* orchestrator runs (Spec)
MaxSites == 2
MaxPageLimit == 2
MaxCards == 1
MaxFailed == 1
\* single-site discovery runs (SpecDiscover)
MaxPageLimitD == 3
MaxCardsD == 5
MaxFailedD == 1
\* dispatch runs (SpecBatch)
MaxJobs == 7
MaxCapacity == 3
MaxJsonBytes == 2

Entries == {"function_app", "run_scraper"}

VARIABLES
    entry,              \* the entry point that is running
    fqdn,               \* the queue endpoint address is set in the environment
    pc,                 \* position of the single flow of control
    result,             \* "running", "completed", "failed"
    client,             \* ServiceBusClient: "none", "open", "closed"
    sender,             \* queue sender: "none", "open", "closed"
    sites_to_scrape,    \* list(SITES_CONFIG.keys())
    site_idx,           \* position of the site loop in sites_to_scrape
    attempted,          \* log: the sites run_scraper_for_site was called for
    all_jobs_collected,
    scraping_summary,
    summary_logged,     \* the final summary has been written
    browser,            \* "none", "open", "closed", "killed"
    page,               \* the strategy's page: "none", "open", "closed", "killed"
    pages_acquired,     \* log: new_page() calls of the current discover_jobs
    safety_limit,
    page_number,
    nav_log,            \* log: page numbers passed to page.goto, current call
    page_results,       \* log: the list _parse_page returned for each page
    count,              \* job_cards.count()
    card_i,             \* loop variable i of _parse_page
    failed_cards,       \* log: the cards of the current page whose extraction raised
    card_faults,        \* log: the number of cards that raised in the current call
    scraped_jobs_on_page,
    jobs_found_on_page,
    yield_idx,          \* position of the yield loop in jobs_found_on_page
    all_scraped_jobs,
    yielded,            \* log: per site, the records its discovery yielded
    jobs,               \* argument of send_jobs_to_queue
    job_idx,            \* position of the batching loop in jobs
    capacity,           \* byte budget of an envelope
    current_batch,
    batch_msg_count,
    total_sent,
    batch_count,
    sent,               \* log: the envelopes sender.send_messages transmitted
    failed_send,        \* log: the envelopes whose sender.send_messages raised
    imported,           \* log: the modules importlib.import_module was called for
    constructed,        \* log: the sites a strategy instance was constructed for
    raised,             \* the exception that left the call under study, or NoError
    strategy,           \* the InternshalaScraper whose card loop runs
    config_keys,        \* the keys of SITES_CONFIG
    card_log,           \* log: what each card of the page offered
    raw_salary_text     \* the raw_salary_text of each record of scraped_jobs_on_page

orchVars == <<entry, fqdn, sites_to_scrape, site_idx, attempted,
              all_jobs_collected, scraping_summary, summary_logged>>
browserVars == <<browser, page, pages_acquired>>
discoverVars == <<safety_limit, page_number, nav_log, page_results, count,
                  card_i, failed_cards, card_faults, scraped_jobs_on_page, jobs_found_on_page,
                  yield_idx, all_scraped_jobs, yielded>>
queueVars == <<client, sender>>
batchVars == <<jobs, job_idx, capacity, current_batch, batch_msg_count,
               total_sent, batch_count, sent>>
auxVars == <<imported, constructed, raised, strategy, config_keys, card_log,
             raw_salary_text>>
vars == <<pc, result, orchVars, browserVars, discoverVars, queueVars, batchVars,
          failed_send, auxVars>>

(***************************************************************************)
(* Helpers.                                                                *)
(***************************************************************************)
\* A JobItem is identified by the card it was extracted from.
JobItem(site, pageNo, card) == <<site, pageNo, card>>

RECURSIVE Flatten(_)
Flatten(ss) == IF ss = <<>> THEN <<>> ELSE Head(ss) \o Flatten(Tail(ss))

RECURSIVE SumBytes(_)
SumBytes(batch) == IF batch = <<>> THEN 0 ELSE Head(batch).bytes + SumBytes(Tail(batch))

\* dict assignment d[k] = v
DictSet(d, k, v) == [x \in (DOMAIN d) \cup {k} |-> IF x = k THEN v ELSE d[x]]

\* no exception
NoError == [type |-> "none", names |-> 0]

\* the two revisions of the strategy
Strategies == {"scraper_core", "jobvago_scraper"}

OkEntry(n) == [kind |-> "ok", count |-> n]
ErrorEntry == [kind |-> "error", count |-> 0]

(***************************************************************************)
(* Initial states.                                                         *)
(***************************************************************************)
InitCommon ==
    /\ result = "running"
    /\ client = "none"
    /\ sender = "none"
    /\ site_idx = 1
    /\ attempted = <<>>
    /\ all_jobs_collected = <<>>
    /\ scraping_summary = <<>>
    /\ summary_logged = FALSE
    /\ browser = "none"
    /\ page = "none"
    /\ pages_acquired = 0
    /\ page_number = 0
    /\ nav_log = <<>>
    /\ page_results = <<>>
    /\ count = 0
    /\ card_i = 0
    /\ failed_cards = {}
    /\ card_faults = 0
    /\ scraped_jobs_on_page = <<>>
    /\ jobs_found_on_page = <<>>
    /\ yield_idx = 0
    /\ all_scraped_jobs = <<>>
    /\ yielded = <<>>
    /\ job_idx = 0
    /\ capacity = 0
    /\ current_batch = <<>>
    /\ batch_msg_count = 0
    /\ total_sent = 0
    /\ batch_count = 0
    /\ sent = <<>>
    /\ failed_send = <<>>
    /\ imported = <<>>
    /\ constructed = <<>>
    /\ raised = NoError
    /\ card_log = <<>>
    /\ raw_salary_text = <<>>

\* a run of a scheduled orchestrator over the configured sites
Init ==
    /\ InitCommon
    /\ strategy = "scraper_core"
    /\ pc = "preflight"
    /\ entry \in Entries
    /\ fqdn \in BOOLEAN
    /\ sites_to_scrape \in {[k \in 1..n |-> k] : n \in 0..MaxSites}
    /\ safety_limit \in 1..MaxPageLimit
    /\ jobs = <<>>
    /\ config_keys = {sites_to_scrape[k] : k \in DOMAIN sites_to_scrape}

\* a run over the one site the shipped SITES_CONFIG holds
InitDiscover ==
    /\ InitCommon
    /\ strategy = "scraper_core"
    /\ pc = "preflight"
    /\ entry \in Entries
    /\ fqdn \in BOOLEAN
    /\ sites_to_scrape = <<1>>
    /\ safety_limit \in 1..MaxPageLimitD
    /\ jobs = <<>>
    /\ config_keys = {sites_to_scrape[k] : k \in DOMAIN sites_to_scrape}

\* a call of send_jobs_to_queue on a list of records
InitBatch ==
    /\ InitCommon
    /\ strategy = "scraper_core"
    /\ pc = "send_open"
    /\ entry \in Entries
    /\ fqdn \in BOOLEAN
    /\ sites_to_scrape = <<>>
    /\ safety_limit = 1
    /\ jobs \in {[k \in 1..n |-> JobItem(1, 1, k - 1)] : n \in 0..MaxJobs}
    /\ config_keys = {sites_to_scrape[k] : k \in DOMAIN sites_to_scrape}

(***************************************************************************)
(* The outer try/except of the orchestrator: an exception that reaches it  *)
(* ends the run in failure (re-raised in function_app.py, exit(1) in       *)
(* run_scraper.py).  The context managers on the way close the transport.  *)
(***************************************************************************)
RunFails ==
    /\ pc' = "done"
    /\ result' = "failed"
    /\ client' = IF client = "open" THEN "closed" ELSE client
    /\ sender' = IF sender = "open" THEN "closed" ELSE sender

(***************************************************************************)
(* test_service_bus_connection                                             *)
(***************************************************************************)
\* mutant: a missing endpoint address is reported and the run goes on
PreflightNoFqdnGoesOn ==
    /\ pc = "preflight"
    /\ ~fqdn
    /\ pc' = "site_loop"
    /\ UNCHANGED <<result, orchVars, browserVars, discoverVars, queueVars, batchVars>>
    /\ UNCHANGED <<failed_send, auxVars>>

PreflightNoFqdn ==
    /\ pc = "preflight"
    /\ ~fqdn
    /\ RunFails
    /\ UNCHANGED <<orchVars, browserVars, discoverVars, batchVars>>
    /\ UNCHANGED <<failed_send, auxVars>>

PreflightConnect ==
    /\ pc = "preflight"
    /\ fqdn
    /\ client' = "open"
    /\ sender' = IF entry = "function_app" THEN "open" ELSE sender
    /\ pc' = "preflight_open"
    /\ UNCHANGED <<result, orchVars, browserVars, discoverVars, batchVars>>
    /\ UNCHANGED <<failed_send, auxVars>>

PreflightConnectFails ==
    /\ pc = "preflight"
    /\ fqdn
    /\ RunFails
    /\ UNCHANGED <<orchVars, browserVars, discoverVars, batchVars>>
    /\ UNCHANGED <<failed_send, auxVars>>

\* mutant: the pre-flight connection is kept for the run
PreflightCloseKeepsClient ==
    /\ pc = "preflight_open"
    /\ pc' = "site_loop"
    /\ UNCHANGED <<result, orchVars, browserVars, discoverVars, queueVars, batchVars>>
    /\ UNCHANGED <<failed_send, auxVars>>

PreflightClose ==
    /\ pc = "preflight_open"
    /\ client' = "closed"
    /\ sender' = IF sender = "open" THEN "closed" ELSE sender
    /\ pc' = "site_loop"
    /\ UNCHANGED <<result, orchVars, browserVars, discoverVars, batchVars>>
    /\ UNCHANGED <<failed_send, auxVars>>

(***************************************************************************)
(* The site loop of ScheduledScraper / main.                               *)
(***************************************************************************)
site_name == sites_to_scrape[site_idx]

\* The frames of run_scraper_for_site and of the discover_jobs generator are
\* gone once the call has returned or raised.
FrameDropped ==
    /\ pages_acquired' = 0
    /\ page_number' = 0
    /\ nav_log' = <<>>
    /\ page_results' = <<>>
    /\ count' = 0
    /\ card_i' = 0
    /\ failed_cards' = {}
    /\ card_faults' = 0
    /\ scraped_jobs_on_page' = <<>>
    /\ jobs_found_on_page' = <<>>
    /\ yield_idx' = 0
    /\ all_scraped_jobs' = <<>>

\* mutant: the site loop has no except clause, the exception ends the run
SiteRaisesAbortsRun ==
    /\ browser' = IF browser = "open" THEN "killed" ELSE browser
    /\ page' = IF page = "open" THEN "killed" ELSE page
    /\ pc' = "done"
    /\ result' = "failed"
    /\ FrameDropped
    /\ UNCHANGED <<orchVars, safety_limit, yielded, queueVars, batchVars>>
    /\ UNCHANGED <<failed_send, auxVars>>

\* mutant: the except clause goes on without recording the site
SiteRaisesNoEntry ==
    /\ browser' = IF browser = "open" THEN "killed" ELSE browser
    /\ page' = IF page = "open" THEN "killed" ELSE page
    /\ site_idx' = site_idx + 1
    /\ pc' = "site_loop"
    /\ FrameDropped
    /\ UNCHANGED <<result, entry, fqdn, sites_to_scrape, attempted, all_jobs_collected,
                   scraping_summary, summary_logged, safety_limit, yielded, queueVars,
                   batchVars>>
    /\ UNCHANGED <<failed_send, auxVars>>

\* mutant: the exception leaves the browser and the page of the site as they are
SiteRaisesLeavesBrowser ==
    /\ scraping_summary' = DictSet(scraping_summary, site_name, ErrorEntry)
    /\ site_idx' = site_idx + 1
    /\ pc' = "site_loop"
    /\ FrameDropped
    /\ UNCHANGED <<result, entry, fqdn, sites_to_scrape, attempted, all_jobs_collected,
                   summary_logged, browser, page, safety_limit, yielded, queueVars,
                   batchVars>>
    /\ UNCHANGED <<failed_send, auxVars>>

\* mutant: the records the site yielded before it raised are kept
SiteRaisesKeepsRecords ==
    /\ browser' = IF browser = "open" THEN "killed" ELSE browser
    /\ page' = IF page = "open" THEN "killed" ELSE page
    /\ all_jobs_collected' = all_jobs_collected \o all_scraped_jobs
    /\ scraping_summary' = DictSet(scraping_summary, site_name, ErrorEntry)
    /\ site_idx' = site_idx + 1
    /\ pc' = "site_loop"
    /\ FrameDropped
    /\ UNCHANGED <<result, entry, fqdn, sites_to_scrape, attempted,
                   summary_logged, safety_limit, yielded, queueVars, batchVars>>
    /\ UNCHANGED <<failed_send, auxVars>>

\* An exception leaves run_scraper_for_site: async_playwright's exit tears the
\* browser down, and the except clause of the site loop records the error and
\* goes on with the next site.
SiteRaises ==
    /\ browser' = IF browser = "open" THEN "killed" ELSE browser
    /\ page' = IF page = "open" THEN "killed" ELSE page
    /\ scraping_summary' = DictSet(scraping_summary, site_name, ErrorEntry)
    /\ site_idx' = site_idx + 1
    /\ pc' = "site_loop"
    /\ FrameDropped
    /\ UNCHANGED <<result, entry, fqdn, sites_to_scrape, attempted, all_jobs_collected,
                   summary_logged, safety_limit, yielded, queueVars, batchVars>>
    /\ UNCHANGED <<failed_send, auxVars>>

StartSite ==
    /\ pc = "site_loop"
    /\ site_idx <= Len(sites_to_scrape)
    /\ attempted' = Append(attempted, site_name)
    /\ yielded' = DictSet(yielded, site_name, <<>>)
    /\ pc' = "factory"
    /\ UNCHANGED <<result, entry, fqdn, sites_to_scrape, site_idx, all_jobs_collected,
                   scraping_summary, summary_logged, browserVars, safety_limit,
                   page_number, nav_log, page_results, count, card_i, failed_cards, card_faults,
                   scraped_jobs_on_page, jobs_found_on_page, yield_idx,
                   all_scraped_jobs, queueVars, batchVars>>
    /\ UNCHANGED <<failed_send, auxVars>>

(***************************************************************************)
(* scraper_factory and run_scraper_for_site                                *)
(***************************************************************************)
FactoryOk ==
    /\ pc = "factory"
    /\ all_scraped_jobs' = <<>>
    /\ pc' = "launch"
    /\ UNCHANGED <<result, orchVars, browserVars, safety_limit, page_number, nav_log,
                   page_results, count, card_i, failed_cards, card_faults, scraped_jobs_on_page,
                   jobs_found_on_page, yield_idx, yielded, queueVars, batchVars>>
    /\ UNCHANGED <<failed_send, auxVars>>

\* importlib.import_module or getattr fails for the site's binding
FactoryRaises ==
    /\ pc = "factory"
    /\ SiteRaises

LaunchBrowser ==
    /\ pc = "launch"
    /\ browser' = "open"
    /\ page' = "none"
    /\ pc' = "new_page"
    /\ UNCHANGED <<result, orchVars, pages_acquired, discoverVars, queueVars, batchVars>>
    /\ UNCHANGED <<failed_send, auxVars>>

LaunchRaises ==
    /\ pc = "launch"
    /\ SiteRaises

(***************************************************************************)
(* InternshalaScraper.discover_jobs                                        *)
(***************************************************************************)
\* mutant: the call does not set the page number
NewPageKeepsPageNumber ==
    /\ pc = "new_page"
    /\ page' = "open"
    /\ pages_acquired' = pages_acquired + 1
    /\ page_number' = page_number
    /\ pc' = "loop"
    /\ UNCHANGED <<result, orchVars, browser, safety_limit, nav_log, page_results,
                   count, card_i, failed_cards, card_faults, scraped_jobs_on_page, jobs_found_on_page,
                   yield_idx, all_scraped_jobs, yielded, queueVars, batchVars>>
    /\ UNCHANGED <<failed_send, auxVars>>

NewPage ==
    /\ pc = "new_page"
    /\ page' = "open"
    /\ pages_acquired' = pages_acquired + 1
    /\ page_number' = 1
    /\ pc' = "loop"
    /\ UNCHANGED <<result, orchVars, browser, safety_limit, nav_log, page_results,
                   count, card_i, failed_cards, card_faults, scraped_jobs_on_page, jobs_found_on_page,
                   yield_idx, all_scraped_jobs, yielded, queueVars, batchVars>>
    /\ UNCHANGED <<failed_send, auxVars>>

\* browser.new_page() raises: no page was acquired
NewPageRaises ==
    /\ pc = "new_page"
    /\ SiteRaises

\* mutant: the ceiling is tested one page late
WithinLimitOffByOne == page_number <= safety_limit + 1

\* while page_number <= self.safety_limit
WithinLimit == page_number <= safety_limit

\* the loop is entered and page.goto succeeds
GotoOk ==
    /\ pc = "loop"
    /\ WithinLimit
    /\ nav_log' = Append(nav_log, page_number)
    /\ pc' = "parse"
    /\ UNCHANGED <<result, orchVars, browserVars, safety_limit, page_number,
                   page_results, count, card_i, failed_cards, card_faults, scraped_jobs_on_page,
                   jobs_found_on_page, yield_idx, all_scraped_jobs, yielded,
                   queueVars, batchVars>>
    /\ UNCHANGED <<failed_send, auxVars>>

\* mutant: the navigation error is not caught
GotoFailsRaises ==
    /\ pc = "loop"
    /\ WithinLimit
    /\ SiteRaises

\* page.goto raises (navigation error or timeout): break
GotoFails ==
    /\ pc = "loop"
    /\ WithinLimit
    /\ nav_log' = Append(nav_log, page_number)
    /\ pc' = "close_page"
    /\ UNCHANGED <<result, orchVars, browserVars, safety_limit, page_number,
                   page_results, count, card_i, failed_cards, card_faults, scraped_jobs_on_page,
                   jobs_found_on_page, yield_idx, all_scraped_jobs, yielded,
                   queueVars, batchVars>>
    /\ UNCHANGED <<failed_send, auxVars>>

\* the while condition is false
LimitReached ==
    /\ pc = "loop"
    /\ ~WithinLimit
    /\ pc' = "close_page"
    /\ UNCHANGED <<result, orchVars, browserVars, discoverVars, queueVars, batchVars>>
    /\ UNCHANGED <<failed_send, auxVars>>

(***************************************************************************)
(* InternshalaScraper._parse_page                                          *)
(***************************************************************************)
\* _handle_popups, wait_for or count() raises something that is not a
\* PlaywrightTimeoutError: nothing in _parse_page or discover_jobs catches it
ParseRaises ==
    /\ pc = "parse"
    /\ SiteRaises

\* wait_for times out: return []; discover_jobs breaks
WaitForTimeout ==
    /\ pc = "parse"
    /\ jobs_found_on_page' = <<>>
    /\ page_results' = Append(page_results, <<>>)
    /\ pc' = "close_page"
    /\ UNCHANGED <<result, orchVars, browserVars, safety_limit, page_number, nav_log,
                   count, card_i, failed_cards, card_faults, scraped_jobs_on_page, yield_idx,
                   all_scraped_jobs, yielded, queueVars, batchVars>>
    /\ UNCHANGED <<failed_send, auxVars>>

CountCards(maxCards) ==
    /\ pc = "parse"
    /\ \E n \in 1..maxCards : count' = n
    /\ card_i' = 0
    /\ failed_cards' = {}
    /\ scraped_jobs_on_page' = <<>>
    /\ pc' = "cards"
    /\ UNCHANGED <<result, orchVars, browserVars, safety_limit, page_number, nav_log,
                   page_results, card_faults, jobs_found_on_page, yield_idx,
                   all_scraped_jobs, yielded, queueVars, batchVars>>
    /\ UNCHANGED <<failed_send, auxVars>>

ExtractCardOk ==
    /\ pc = "cards"
    /\ card_i < count
    /\ scraped_jobs_on_page' =
           Append(scraped_jobs_on_page, JobItem(site_name, page_number, card_i))
    /\ card_i' = card_i + 1
    /\ UNCHANGED <<pc, result, orchVars, browserVars, safety_limit, page_number,
                   nav_log, page_results, count, failed_cards, card_faults, jobs_found_on_page,
                   yield_idx, all_scraped_jobs, yielded, queueVars, batchVars>>
    /\ UNCHANGED <<failed_send, auxVars>>

\* mutant: a failing card ends the card loop (break instead of continue)
ExtractCardRaisesBreaks(maxFaults) ==
    /\ pc = "cards"
    /\ card_i < count
    /\ card_faults < maxFaults
    /\ card_faults' = card_faults + 1
    /\ failed_cards' = failed_cards \cup {card_i}
    /\ card_i' = count
    /\ UNCHANGED <<pc, result, orchVars, browserVars, safety_limit, page_number,
                   nav_log, page_results, count, scraped_jobs_on_page,
                   jobs_found_on_page, yield_idx, all_scraped_jobs, yielded,
                   queueVars, batchVars>>
    /\ UNCHANGED <<failed_send, auxVars>>

\* a locator call or the JobItem validation raises: except Exception: continue
ExtractCardRaises(maxFaults) ==
    /\ pc = "cards"
    /\ card_i < count
    /\ card_faults < maxFaults
    /\ card_faults' = card_faults + 1
    /\ failed_cards' = failed_cards \cup {card_i}
    /\ card_i' = card_i + 1
    /\ UNCHANGED <<pc, result, orchVars, browserVars, safety_limit, page_number,
                   nav_log, page_results, count, scraped_jobs_on_page,
                   jobs_found_on_page, yield_idx, all_scraped_jobs, yielded,
                   queueVars, batchVars>>
    /\ UNCHANGED <<failed_send, auxVars>>

\* mutant: an empty page does not end the pagination
ParseReturnNoBreak ==
    /\ pc = "cards"
    /\ card_i = count
    /\ jobs_found_on_page' = scraped_jobs_on_page
    /\ page_results' = Append(page_results, scraped_jobs_on_page)
    /\ count' = 0
    /\ card_i' = 0
    /\ scraped_jobs_on_page' = <<>>
    /\ yield_idx' = 1
    /\ failed_cards' = {}
    /\ pc' = "yield"
    /\ UNCHANGED <<result, orchVars, browserVars, safety_limit, page_number, nav_log,
                   card_faults, all_scraped_jobs, yielded, queueVars, batchVars>>
    /\ UNCHANGED <<failed_send, auxVars>>

\* return scraped_jobs_on_page; if not jobs_found_on_page: break
ParseReturn ==
    /\ pc = "cards"
    /\ card_i = count
    /\ jobs_found_on_page' = scraped_jobs_on_page
    /\ page_results' = Append(page_results, scraped_jobs_on_page)
    /\ count' = 0
    /\ card_i' = 0
    /\ scraped_jobs_on_page' = <<>>
    /\ yield_idx' = 1
    /\ failed_cards' = {}
    /\ pc' = IF scraped_jobs_on_page = <<>> THEN "close_page" ELSE "yield"
    /\ UNCHANGED <<result, orchVars, browserVars, safety_limit, page_number, nav_log,
                   card_faults, all_scraped_jobs, yielded, queueVars, batchVars>>
    /\ UNCHANGED <<failed_send, auxVars>>

\* yield job_item; the consumer appends it to all_scraped_jobs
YieldJob ==
    /\ pc = "yield"
    /\ yield_idx <= Len(jobs_found_on_page)
    /\ all_scraped_jobs' = Append(all_scraped_jobs, jobs_found_on_page[yield_idx])
    /\ yielded' = [yielded EXCEPT ![site_name] = Append(@, jobs_found_on_page[yield_idx])]
    /\ yield_idx' = yield_idx + 1
    /\ UNCHANGED <<pc, result, orchVars, browserVars, safety_limit, page_number,
                   nav_log, page_results, count, card_i, failed_cards, card_faults, scraped_jobs_on_page,
                   jobs_found_on_page, queueVars, batchVars>>
    /\ UNCHANGED <<failed_send, auxVars>>

\* mutant: the page number is not incremented
AdvancePageStays ==
    /\ pc = "yield"
    /\ yield_idx > Len(jobs_found_on_page)
    /\ pc' = "loop"
    /\ UNCHANGED <<result, orchVars, browserVars, safety_limit, page_number, nav_log,
                   page_results, count, card_i, failed_cards, card_faults,
                   scraped_jobs_on_page, jobs_found_on_page,
                   yield_idx, all_scraped_jobs, yielded, queueVars, batchVars>>
    /\ UNCHANGED <<failed_send, auxVars>>

\* page_number += 1; await asyncio.sleep(1)
AdvancePage ==
    /\ pc = "yield"
    /\ yield_idx > Len(jobs_found_on_page)
    /\ page_number' = page_number + 1
    /\ pc' = "loop"
    /\ UNCHANGED <<result, orchVars, browserVars, safety_limit, nav_log, page_results,
                   count, card_i, failed_cards, card_faults, scraped_jobs_on_page, jobs_found_on_page,
                   yield_idx, all_scraped_jobs, yielded, queueVars, batchVars>>
    /\ UNCHANGED <<failed_send, auxVars>>

\* await page.close(): the generator is exhausted
ClosePage ==
    /\ pc = "close_page"
    /\ page' = "closed"
    /\ pc' = "close_browser"
    /\ UNCHANGED <<result, orchVars, browser, pages_acquired, discoverVars,
                   queueVars, batchVars>>
    /\ UNCHANGED <<failed_send, auxVars>>

\* await browser.close()
CloseBrowser ==
    /\ pc = "close_browser"
    /\ browser' = "closed"
    /\ pc' = "site_return"
    /\ UNCHANGED <<result, orchVars, page, pages_acquired, discoverVars,
                   queueVars, batchVars>>
    /\ UNCHANGED <<failed_send, auxVars>>

\* mutant: the collection is assigned instead of extended
SiteReturnAssigns ==
    /\ pc = "site_return"
    /\ all_jobs_collected' = all_scraped_jobs
    /\ scraping_summary' = DictSet(scraping_summary, site_name, OkEntry(Len(all_scraped_jobs)))
    /\ site_idx' = site_idx + 1
    /\ pc' = "site_loop"
    /\ FrameDropped
    /\ UNCHANGED <<result, entry, fqdn, sites_to_scrape, attempted, summary_logged,
                   browser, page, safety_limit, yielded, queueVars, batchVars>>
    /\ UNCHANGED <<failed_send, auxVars>>

\* return all_scraped_jobs; the site loop extends the collection and records
\* the count
SiteReturn ==
    /\ pc = "site_return"
    /\ all_jobs_collected' = all_jobs_collected \o all_scraped_jobs
    /\ scraping_summary' = DictSet(scraping_summary, site_name, OkEntry(Len(all_scraped_jobs)))
    /\ site_idx' = site_idx + 1
    /\ pc' = "site_loop"
    /\ FrameDropped
    /\ UNCHANGED <<result, entry, fqdn, sites_to_scrape, attempted, summary_logged,
                   browser, page, safety_limit, yielded, queueVars, batchVars>>
    /\ UNCHANGED <<failed_send, auxVars>>

\* mutant: send_jobs_to_queue is called whether or not anything was collected
EndSitesAlwaysSends ==
    /\ pc = "site_loop"
    /\ site_idx > Len(sites_to_scrape)
    /\ jobs' = all_jobs_collected
    /\ pc' = "send_open"
    /\ UNCHANGED <<result, orchVars, browserVars, discoverVars, queueVars, job_idx,
                   capacity, current_batch, batch_msg_count, total_sent,
                   batch_count, sent>>
    /\ UNCHANGED <<failed_send, auxVars>>

\* the site loop is over: dispatch what was collected, or skip dispatch
EndSites ==
    /\ pc = "site_loop"
    /\ site_idx > Len(sites_to_scrape)
    /\ IF all_jobs_collected # <<>>
       THEN jobs' = all_jobs_collected /\ pc' = "send_open"
       ELSE jobs' = jobs /\ pc' = "summary"
    /\ UNCHANGED <<result, orchVars, browserVars, discoverVars, queueVars, job_idx,
                   capacity, current_batch, batch_msg_count, total_sent,
                   batch_count, sent>>
    /\ UNCHANGED <<failed_send, auxVars>>

(***************************************************************************)
(* send_jobs_to_queue                                                      *)
(***************************************************************************)
Message(job, b) == [job |-> job, bytes |-> b]

\* current_batch.add_message(message) accepts the message
Fits(batch, b) == SumBytes(batch) + b <= capacity

\* the counters function_app.py keeps and run_scraper.py does not
Counted(n) == IF entry = "function_app" THEN n ELSE 0

\* mutant: the final flush is taken only for more than one message
FinalBatchNonEmptyOffByOne ==
    IF entry = "function_app" THEN batch_msg_count > 1 ELSE Len(current_batch) > 1

\* the emptiness test of the final flush: batch_msg_count > 0 in
\* function_app.py, len(current_batch) > 0 in run_scraper.py
FinalBatchNonEmpty ==
    IF entry = "function_app" THEN batch_msg_count > 0 ELSE Len(current_batch) > 0

\* The endpoint address is missing (ValueError in function_app.py, the client
\* constructor failing on None in run_scraper.py), or the client and the
\* sender are opened and the first batch is created.
SendOpen(capacities) ==
    /\ pc = "send_open"
    /\ IF ~fqdn
       THEN /\ RunFails
            /\ UNCHANGED batchVars
       ELSE /\ client' = "open"
            /\ sender' = "open"
            /\ \E cap \in capacities : capacity' = cap
            /\ current_batch' = <<>>
            /\ batch_msg_count' = 0
            /\ total_sent' = 0
            /\ batch_count' = 0
            /\ job_idx' = 1
            /\ pc' = "batch"
            /\ UNCHANGED <<result, jobs, sent>>
    /\ UNCHANGED <<orchVars, browserVars, discoverVars>>
    /\ UNCHANGED <<failed_send, auxVars>>

\* the transport cannot be reached
SendOpenFails ==
    /\ pc = "send_open"
    /\ fqdn
    /\ RunFails
    /\ UNCHANGED <<orchVars, browserVars, discoverVars, batchVars>>
    /\ UNCHANGED <<failed_send, auxVars>>

\* mutant: the envelope is sent as soon as a message was added to it
AddFitsFlushes(maxBytes) ==
    /\ pc = "batch"
    /\ job_idx <= Len(jobs)
    /\ \E b \in 1..maxBytes :
          /\ Fits(current_batch, b)
          /\ sent' = Append(sent, Append(current_batch, Message(jobs[job_idx], b)))
    /\ current_batch' = <<>>
    /\ batch_msg_count' = 0
    /\ job_idx' = job_idx + 1
    /\ UNCHANGED <<pc, result, orchVars, browserVars, discoverVars, queueVars, jobs,
                   capacity, total_sent, batch_count>>
    /\ UNCHANGED <<failed_send, auxVars>>

AddFits(maxBytes) ==
    /\ pc = "batch"
    /\ job_idx <= Len(jobs)
    /\ \E b \in 1..maxBytes :
          /\ Fits(current_batch, b)
          /\ current_batch' = Append(current_batch, Message(jobs[job_idx], b))
    /\ batch_msg_count' = Counted(batch_msg_count + 1)
    /\ job_idx' = job_idx + 1
    /\ UNCHANGED <<pc, result, orchVars, browserVars, discoverVars, queueVars, jobs,
                   capacity, total_sent, batch_count, sent>>
    /\ UNCHANGED <<failed_send, auxVars>>

\* mutant: a record that the new envelope rejects as well is dropped and the
\* batching loop goes on
AddOverflowDropsOversized(maxBytes) ==
    /\ pc = "batch"
    /\ job_idx <= Len(jobs)
    /\ \E b \in 1..maxBytes :
          /\ ~Fits(current_batch, b)
          /\ sent' = Append(sent, current_batch)
          /\ batch_count' = Counted(batch_count + 1)
          /\ total_sent' = Counted(total_sent + batch_msg_count)
          /\ IF Fits(<<>>, b)
             THEN /\ current_batch' = <<Message(jobs[job_idx], b)>>
                  /\ batch_msg_count' = Counted(1)
             ELSE /\ current_batch' = <<>>
                  /\ batch_msg_count' = 0
    /\ job_idx' = job_idx + 1
    /\ UNCHANGED <<pc, result, queueVars>>
    /\ UNCHANGED <<orchVars, browserVars, discoverVars, jobs, capacity>>
    /\ UNCHANGED <<failed_send, auxVars>>

\* add_message raises ValueError: the batch is sent, a new one is created and
\* the message is added to it; if it does not fit there either the ValueError
\* leaves send_jobs_to_queue
AddOverflow(maxBytes) ==
    /\ pc = "batch"
    /\ job_idx <= Len(jobs)
    /\ \E b \in 1..maxBytes :
          /\ ~Fits(current_batch, b)
          /\ sent' = Append(sent, current_batch)
          /\ batch_count' = Counted(batch_count + 1)
          /\ total_sent' = Counted(total_sent + batch_msg_count)
          /\ IF Fits(<<>>, b)
             THEN /\ current_batch' = <<Message(jobs[job_idx], b)>>
                  /\ batch_msg_count' = Counted(1)
                  /\ job_idx' = job_idx + 1
                  /\ UNCHANGED <<pc, result, queueVars>>
             ELSE /\ current_batch' = <<>>
                  /\ UNCHANGED <<batch_msg_count, job_idx>>
                  /\ RunFails
    /\ UNCHANGED <<orchVars, browserVars, discoverVars, jobs, capacity>>
    /\ UNCHANGED <<failed_send, auxVars>>

\* mutant: a failed send is logged and the batching loop goes on, so the same
\* envelope is passed to send again
SendMessagesFailsRetries(maxBytes) ==
    /\ pc = "batch"
    /\ IF job_idx <= Len(jobs)
       THEN \E b \in 1..maxBytes : ~Fits(current_batch, b)
       ELSE FinalBatchNonEmpty
    /\ Len(failed_send) < 2
    /\ failed_send' = Append(failed_send, current_batch)
    /\ UNCHANGED <<pc, result, orchVars, browserVars, discoverVars, queueVars,
                   batchVars, auxVars>>

\* sender.send_messages raises, in the except branch or at the final flush
SendMessagesFails(maxBytes) ==
    /\ pc = "batch"
    /\ IF job_idx <= Len(jobs)
       THEN \E b \in 1..maxBytes : ~Fits(current_batch, b)
       ELSE FinalBatchNonEmpty
    /\ batch_count' = Counted(batch_count + 1)
    /\ RunFails
    /\ UNCHANGED <<orchVars, browserVars, discoverVars, jobs, job_idx, capacity,
                   current_batch, batch_msg_count, total_sent, sent>>
    /\ failed_send' = Append(failed_send, current_batch)
    /\ UNCHANGED auxVars

\* mutant: the remaining envelope is sent whether or not it holds a message
FinalFlushAlwaysSends ==
    /\ pc = "batch"
    /\ job_idx > Len(jobs)
    /\ sent' = Append(sent, current_batch)
    /\ batch_count' = Counted(batch_count + 1)
    /\ total_sent' = Counted(total_sent + batch_msg_count)
    /\ client' = "closed"
    /\ sender' = "closed"
    /\ pc' = "summary"
    /\ UNCHANGED <<result, orchVars, browserVars, discoverVars, jobs, job_idx,
                   capacity, current_batch, batch_msg_count>>
    /\ UNCHANGED <<failed_send, auxVars>>

\* the input is exhausted: send what remains, close the sender and the client
FinalFlush ==
    /\ pc = "batch"
    /\ job_idx > Len(jobs)
    /\ IF FinalBatchNonEmpty
       THEN /\ sent' = Append(sent, current_batch)
            /\ batch_count' = Counted(batch_count + 1)
            /\ total_sent' = Counted(total_sent + batch_msg_count)
       ELSE UNCHANGED <<sent, batch_count, total_sent>>
    /\ client' = "closed"
    /\ sender' = "closed"
    /\ pc' = "summary"
    /\ UNCHANGED <<result, orchVars, browserVars, discoverVars, jobs, job_idx,
                   capacity, current_batch, batch_msg_count>>
    /\ UNCHANGED <<failed_send, auxVars>>

(***************************************************************************)
(* The final summary of ScheduledScraper / main.                           *)
(***************************************************************************)
\* mutant: a run with a site recorded as an error ends in failure
SummaryFailsOnSiteErrors ==
    /\ pc = "summary"
    /\ summary_logged' = TRUE
    /\ result' = IF \E k \in DOMAIN scraping_summary : scraping_summary[k].kind = "error"
                 THEN "failed" ELSE "completed"
    /\ pc' = "done"
    /\ UNCHANGED <<entry, fqdn, sites_to_scrape, site_idx, attempted,
                   all_jobs_collected, scraping_summary, browserVars, discoverVars,
                   queueVars, batchVars>>
    /\ UNCHANGED <<failed_send, auxVars>>

Summary ==
    /\ pc = "summary"
    /\ summary_logged' = TRUE
    /\ result' = "completed"
    /\ pc' = "done"
    /\ UNCHANGED <<entry, fqdn, sites_to_scrape, site_idx, attempted,
                   all_jobs_collected, scraping_summary, browserVars, discoverVars,
                   queueVars, batchVars>>
    /\ UNCHANGED <<failed_send, auxVars>>

\* the steps that do not depend on a bound of the environment
SiteStep ==
    \/ PreflightNoFqdn
    \/ PreflightConnect
    \/ PreflightConnectFails
    \/ PreflightClose
    \/ StartSite
    \/ FactoryOk
    \/ FactoryRaises
    \/ LaunchBrowser
    \/ LaunchRaises
    \/ NewPage
    \/ NewPageRaises
    \/ GotoOk
    \/ GotoFails
    \/ LimitReached
    \/ ParseRaises
    \/ WaitForTimeout
    \/ ExtractCardOk
    \/ ParseReturn
    \/ YieldJob
    \/ AdvancePage
    \/ ClosePage
    \/ CloseBrowser
    \/ SiteReturn
    \/ EndSites
    \/ Summary

\* any number of sites; envelopes of MaxCapacity records of one size
Next ==
    \/ SiteStep
    \/ CountCards(MaxCards)
    \/ ExtractCardRaises(MaxFailed)
    \/ SendOpen({MaxCapacity})
    \/ SendOpenFails
    \/ FinalFlush
    \/ AddFits(1)
    \/ AddOverflow(1)
    \/ SendMessagesFails(1)

Spec == Init /\ [][Next]_vars

\* one site, pages of up to MaxCardsD cards, at most MaxFailedD failing cards in
\* a call of discover_jobs; the run is followed up to the call of
\* send_jobs_to_queue
NextDiscover ==
    \/ SiteStep
    \/ CountCards(MaxCardsD)
    \/ ExtractCardRaises(MaxFailedD)

SpecDiscover == InitDiscover /\ [][NextDiscover]_vars

\* any capacity, records of any size up to MaxJsonBytes
NextBatch ==
    \/ SendOpen(1..MaxCapacity)
    \/ SendOpenFails
    \/ AddFits(MaxJsonBytes)
    \/ AddOverflow(MaxJsonBytes)
    \/ SendMessagesFails(MaxJsonBytes)
    \/ FinalFlush

SpecBatch == InitBatch /\ [][NextBatch]_vars

(***************************************************************************)
(* scraper_factory, statement by statement, for the factory of each entry  *)
(* point: function_app.py, run_scraper.py and run.py.  The call is made    *)
(* for site_name; it ends at "fac_returned" or, with the exception in      *)
(* raised, at "fac_raised".                                                *)
(***************************************************************************)
MaxRegistry == 2
MaxSiteId == 4

Factories == Entries \cup {"run"}

Error(type, site) == [type |-> type, names |-> site]

\* the first statement of the factory: run_scraper.py has no membership test
FactoryEntry(e) == IF e = "run_scraper" THEN "fac_lookup" ELSE "fac_check"

\* a call of scraper_factory(site_name) with any site id, configured or not
InitFactory ==
    /\ InitCommon
    /\ strategy = "scraper_core"
    /\ entry \in Factories
    /\ fqdn = TRUE
    /\ config_keys \in {1..n : n \in 0..MaxRegistry}
    /\ sites_to_scrape \in {<<id>> : id \in 1..MaxSiteId}
    /\ safety_limit = 1
    /\ jobs = <<>>
    /\ pc = FactoryEntry(entry)

\* if site_name not in SITES_CONFIG: raise ValueError(f"Unknown site: ...")
FactoryUnknownSite ==
    /\ pc = "fac_check"
    /\ site_name \notin config_keys
    /\ raised' = Error("ValueError", site_name)
    /\ pc' = "fac_raised"
    /\ UNCHANGED <<result, orchVars, browserVars, discoverVars, queueVars, batchVars,
                   failed_send, imported, constructed, strategy, config_keys,
                   card_log, raw_salary_text>>

FactoryKnownSite ==
    /\ pc = "fac_check"
    /\ site_name \in config_keys
    /\ pc' = "fac_lookup"
    /\ UNCHANGED <<result, orchVars, browserVars, discoverVars, queueVars, batchVars,
                   failed_send, auxVars>>

\* config = SITES_CONFIG[site_name]
FactoryLookup ==
    /\ pc = "fac_lookup"
    /\ IF site_name \in config_keys
       THEN /\ pc' = "fac_import"
            /\ UNCHANGED raised
       ELSE /\ raised' = Error("KeyError", site_name)
            /\ pc' = "fac_raised"
    /\ UNCHANGED <<result, orchVars, browserVars, discoverVars, queueVars, batchVars,
                   failed_send, imported, constructed, strategy, config_keys,
                   card_log, raw_salary_text>>

\* module = importlib.import_module(module_path)
FactoryImportOk ==
    /\ pc = "fac_import"
    /\ imported' = Append(imported, site_name)
    /\ pc' = "fac_getattr"
    /\ UNCHANGED <<result, orchVars, browserVars, discoverVars, queueVars, batchVars,
                   failed_send, constructed, raised, strategy, config_keys,
                   card_log, raw_salary_text>>

\* the module cannot be imported: ImportError, re-raised as it is in
\* run_scraper.py and as a new ImportError in function_app.py and run.py
FactoryImportFails ==
    /\ pc = "fac_import"
    /\ imported' = Append(imported, site_name)
    /\ raised' = Error("ImportError", site_name)
    /\ pc' = "fac_raised"
    /\ UNCHANGED <<result, orchVars, browserVars, discoverVars, queueVars, batchVars,
                   failed_send, constructed, strategy, config_keys,
                   card_log, raw_salary_text>>

\* ScraperClass = getattr(module, class_name)
FactoryGetattrOk ==
    /\ pc = "fac_getattr"
    /\ pc' = "fac_construct"
    /\ UNCHANGED <<result, orchVars, browserVars, discoverVars, queueVars, batchVars,
                   failed_send, auxVars>>

\* the module has no such class: AttributeError, re-raised as it is in
\* run_scraper.py and as an ImportError in function_app.py and run.py
FactoryGetattrFails ==
    /\ pc = "fac_getattr"
    /\ raised' = Error(IF entry = "run_scraper" THEN "AttributeError" ELSE "ImportError",
                       site_name)
    /\ pc' = "fac_raised"
    /\ UNCHANGED <<result, orchVars, browserVars, discoverVars, queueVars, batchVars,
                   failed_send, imported, constructed, strategy, config_keys,
                   card_log, raw_salary_text>>

\* return ScraperClass()
FactoryConstruct ==
    /\ pc = "fac_construct"
    /\ constructed' = Append(constructed, site_name)
    /\ pc' = "fac_returned"
    /\ UNCHANGED <<result, orchVars, browserVars, discoverVars, queueVars, batchVars,
                   failed_send, imported, raised, strategy, config_keys,
                   card_log, raw_salary_text>>

FactoryStep ==
    \/ FactoryUnknownSite
    \/ FactoryKnownSite
    \/ FactoryLookup
    \/ FactoryImportOk
    \/ FactoryImportFails
    \/ FactoryGetattrOk
    \/ FactoryGetattrFails
    \/ FactoryConstruct

SpecFactory == InitFactory /\ [][FactoryStep]_vars

(***************************************************************************)
(* The command-line runner: main, run_scraper_for_site and                 *)
(* send_jobs_to_queue of run.py.  The site ids are 1 for "internshala" and *)
(* 2 for "naukri", the keys of its SITES_CONFIG; any other id is a name    *)
(* given on the command line that is not configured.                       *)
(***************************************************************************)
MaxArgs == 2
MaxCliRecords == 2

CliSitesConfig == {1, 2}

\* except (ValueError, ImportError) as e
CliCaught == {"ValueError", "ImportError"}

\* args.sites, or list(SITES_CONFIG.keys()) when no site is named
InitCli ==
    /\ InitCommon
    /\ strategy = "jobvago_scraper"
    /\ entry = "run"
    /\ fqdn \in BOOLEAN
    /\ config_keys = CliSitesConfig
    /\ sites_to_scrape \in UNION {[1..n -> 1..MaxSiteId] : n \in 1..MaxArgs}
    /\ safety_limit = 1
    /\ jobs = <<>>
    /\ pc = "cli_loop"

\* for site in sites_to_scrape: try: jobs = await run_scraper_for_site(site)
CliStartSite ==
    /\ pc = "cli_loop"
    /\ site_idx <= Len(sites_to_scrape)
    /\ attempted' = Append(attempted, site_name)
    /\ raised' = NoError
    /\ pc' = FactoryEntry(entry)
    /\ UNCHANGED <<result, entry, fqdn, sites_to_scrape, site_idx, all_jobs_collected,
                   scraping_summary, summary_logged, browserVars, discoverVars,
                   queueVars, batchVars, failed_send, imported, constructed,
                   strategy, config_keys, card_log, raw_salary_text>>

\* scraper = scraper_factory(site_name); all_scraped_jobs = []
CliFactoryReturned ==
    /\ pc = "fac_returned"
    /\ all_scraped_jobs' = <<>>
    /\ pc' = "cli_launch"
    /\ UNCHANGED <<result, orchVars, browserVars, safety_limit, page_number, nav_log,
                   page_results, count, card_i, failed_cards, card_faults,
                   scraped_jobs_on_page, jobs_found_on_page, yield_idx, yielded,
                   queueVars, batchVars, failed_send, auxVars>>

\* browser = await p.chromium.launch(headless=True)
CliLaunch ==
    /\ pc = "cli_launch"
    /\ browser' = "open"
    /\ pc' = "cli_discover"
    /\ UNCHANGED <<result, orchVars, page, pages_acquired, discoverVars, queueVars,
                   batchVars, failed_send, auxVars>>

CliLaunchRaises ==
    /\ pc = "cli_launch"
    /\ raised' = Error("PlaywrightError", site_name)
    /\ pc' = "cli_raised"
    /\ UNCHANGED <<result, orchVars, browserVars, discoverVars, queueVars, batchVars,
                   failed_send, imported, constructed, strategy, config_keys,
                   card_log, raw_salary_text>>

\* scraper.discover_jobs(browser): the strategy class of
\* jobvago_scraper/spiders/internshala.py defines scrape and no discover_jobs,
\* so the attribute lookup raises; a strategy that has the method can raise
\* from the browser as well.  async_playwright's exit tears the browser down.
CliDiscoverRaises ==
    /\ pc = "cli_discover"
    /\ \E t \in {"AttributeError", "PlaywrightError"} :
          raised' = Error(t, site_name)
    /\ browser' = "killed"
    /\ pc' = "cli_raised"
    /\ UNCHANGED <<result, orchVars, page, pages_acquired, discoverVars, queueVars,
                   batchVars, failed_send, imported, constructed, strategy,
                   config_keys, card_log, raw_salary_text>>

\* async for job_item in scraper.discover_jobs(browser): the strategy yields a
\* finite sequence of records; leaving the async with block ends the browser
CliDiscoverYields ==
    /\ pc = "cli_discover"
    /\ \E n \in 0..MaxCliRecords :
          all_scraped_jobs' = [k \in 1..n |-> JobItem(site_name, site_idx, k - 1)]
    /\ browser' = "killed"
    /\ pc' = "cli_site_return"
    /\ UNCHANGED <<result, orchVars, page, pages_acquired, safety_limit, page_number,
                   nav_log, page_results, count, card_i, failed_cards, card_faults,
                   scraped_jobs_on_page, jobs_found_on_page, yield_idx, yielded,
                   queueVars, batchVars, failed_send, auxVars>>

\* all_jobs.extend(jobs); if jobs: await send_jobs_to_queue(jobs)
CliSiteReturn ==
    /\ pc = "cli_site_return"
    /\ all_jobs_collected' = all_jobs_collected \o all_scraped_jobs
    /\ IF all_scraped_jobs # <<>>
       THEN /\ jobs' = all_scraped_jobs
            /\ pc' = "cli_send"
       ELSE /\ jobs' = jobs
            /\ pc' = "cli_sent"
    /\ UNCHANGED <<result, entry, fqdn, sites_to_scrape, site_idx, attempted,
                   scraping_summary, summary_logged, browserVars, discoverVars,
                   queueVars, job_idx, capacity, current_batch, batch_msg_count,
                   total_sent, batch_count, sent, failed_send, auxVars>>

\* if not fqdn: print(...); return
CliSendNoFqdn ==
    /\ pc = "cli_send"
    /\ ~fqdn
    /\ pc' = "cli_sent"
    /\ UNCHANGED <<result, orchVars, browserVars, discoverVars, queueVars, batchVars,
                   failed_send, auxVars>>

\* the client and the sender are opened and the first batch is created
CliSendOpen(capacities) ==
    /\ pc = "cli_send"
    /\ fqdn
    /\ client' = "open"
    /\ sender' = "open"
    /\ \E cap \in capacities : capacity' = cap
    /\ current_batch' = <<>>
    /\ job_idx' = 1
    /\ pc' = "batch"
    /\ UNCHANGED <<result, orchVars, browserVars, discoverVars, jobs, batch_msg_count,
                   total_sent, batch_count, sent, failed_send, auxVars>>

\* the transport cannot be reached: the error is no ValueError or ImportError
CliSendOpenFails ==
    /\ pc = "cli_send"
    /\ fqdn
    /\ raised' = Error("ServiceBusError", site_name)
    /\ pc' = "cli_raised"
    /\ UNCHANGED <<result, orchVars, browserVars, discoverVars, queueVars, batchVars,
                   failed_send, imported, constructed, strategy, config_keys,
                   card_log, raw_salary_text>>

\* sender.send_messages raises, in the except branch or at the final flush
CliSendMessagesFails ==
    /\ pc = "batch"
    /\ IF job_idx <= Len(jobs) THEN ~Fits(current_batch, 1) ELSE FinalBatchNonEmpty
    /\ failed_send' = Append(failed_send, current_batch)
    /\ raised' = Error("ServiceBusError", site_name)
    /\ client' = "closed"
    /\ sender' = "closed"
    /\ pc' = "cli_raised"
    /\ UNCHANGED <<result, orchVars, browserVars, discoverVars, batchVars, imported,
                   constructed, strategy, config_keys, card_log, raw_salary_text>>

\* if len(current_batch) > 0: send it; the sender and the client are closed
CliFinalFlush ==
    /\ pc = "batch"
    /\ job_idx > Len(jobs)
    /\ sent' = IF FinalBatchNonEmpty THEN Append(sent, current_batch) ELSE sent
    /\ client' = "closed"
    /\ sender' = "closed"
    /\ pc' = "cli_sent"
    /\ UNCHANGED <<result, orchVars, browserVars, discoverVars, jobs, job_idx,
                   capacity, current_batch, batch_msg_count, total_sent,
                   batch_count, failed_send, auxVars>>

\* print(f"--- FINISHED SCRAPE FOR: ..."); the loop goes on
CliSiteFinished ==
    /\ pc = "cli_sent"
    /\ site_idx' = site_idx + 1
    /\ pc' = "cli_loop"
    /\ UNCHANGED <<result, entry, fqdn, sites_to_scrape, attempted, all_jobs_collected,
                   scraping_summary, summary_logged, browserVars, discoverVars,
                   queueVars, batchVars, failed_send, auxVars>>

\* an exception reaches the except clause of the site loop: a ValueError or
\* an ImportError is reported and the loop goes on; anything else leaves main
CliSiteRaised ==
    /\ pc \in {"fac_raised", "cli_raised"}
    /\ IF raised.type \in CliCaught
       THEN /\ site_idx' = site_idx + 1
            /\ pc' = "cli_loop"
            /\ UNCHANGED result
       ELSE /\ site_idx' = site_idx
            /\ pc' = "done"
            /\ result' = "failed"
    /\ UNCHANGED <<entry, fqdn, sites_to_scrape, attempted, all_jobs_collected,
                   scraping_summary, summary_logged, browserVars, discoverVars,
                   queueVars, batchVars, failed_send, auxVars>>

\* the loop is over: "SCRAPE COMPLETE" or "NO JOBS WERE SCRAPED"; main returns
CliEnd ==
    /\ pc = "cli_loop"
    /\ site_idx > Len(sites_to_scrape)
    /\ result' = "completed"
    /\ pc' = "done"
    /\ UNCHANGED <<orchVars, browserVars, discoverVars, queueVars, batchVars,
                   failed_send, auxVars>>

NextCli ==
    \/ CliStartSite
    \/ FactoryStep
    \/ CliFactoryReturned
    \/ CliLaunch
    \/ CliLaunchRaises
    \/ CliDiscoverRaises
    \/ CliDiscoverYields
    \/ CliSiteReturn
    \/ CliSendNoFqdn
    \/ CliSendOpen(1..MaxCapacity)
    \/ CliSendOpenFails
    \/ AddFits(1)
    \/ AddOverflow(1)
    \/ CliSendMessagesFails
    \/ CliFinalFlush
    \/ CliSiteFinished
    \/ CliSiteRaised
    \/ CliEnd

SpecCli == InitCli /\ [][NextCli]_vars

(***************************************************************************)
(* Runs under fair scheduling: the event loop resumes the one coroutine    *)
(* whenever the operation it awaits has completed, so a step that can be   *)
(* taken is eventually taken.  The run is followed up to the call of       *)
(* send_jobs_to_queue.                                                     *)
(***************************************************************************)
MaxSitesL == 1
MaxPageLimitL == 2
MaxCardsL == 1
MaxFailedL == 1

InitLive ==
    /\ InitCommon
    /\ strategy = "scraper_core"
    /\ pc = "preflight"
    /\ entry \in Entries
    /\ fqdn \in BOOLEAN
    /\ sites_to_scrape \in {[k \in 1..n |-> k] : n \in 1..MaxSitesL}
    /\ safety_limit \in 1..MaxPageLimitL
    /\ jobs = <<>>
    /\ config_keys = {sites_to_scrape[k] : k \in DOMAIN sites_to_scrape}

NextLive ==
    \/ SiteStep
    \/ CountCards(MaxCardsL)
    \/ ExtractCardRaises(MaxFailedL)

SpecLive == InitLive /\ [][NextLive]_vars /\ WF_vars(NextLive)

(***************************************************************************)
(* The card loop of the two revisions of InternshalaScraper, with what     *)
(* each card offers: _parse_page of scraper_core/spiders/internshala.py    *)
(* and scrape of jobvago_scraper/spiders/internshala.py.  A field that is  *)
(* not on the card makes its locator call raise a timeout error.           *)
(***************************************************************************)
MaxCardsC == 3

\* what a card offers: the required fields (title, link, company, location)
\* and the salary text
Offers == [required : BOOLEAN, salary : BOOLEAN]

\* The JobItem is built: all the required fields are read, and the salary
\* text is read as well (scraper_core reads it inside the same try as the
\* required fields) or its timeout is caught (jobvago_scraper).
Extracts(s, offer) ==
    /\ offer.required
    /\ s = "scraper_core" => offer.salary

\* the raw_salary_text of the JobItem built from the card
SalaryField(offer) == IF offer.salary THEN "text" ELSE "None"

\* a call of _parse_page / scrape on a page that shows cards
InitCard ==
    /\ InitCommon
    /\ strategy \in Strategies
    /\ entry = "function_app"
    /\ fqdn = TRUE
    /\ sites_to_scrape = <<1>>
    /\ config_keys = {1}
    /\ safety_limit = 1
    /\ jobs = <<>>
    /\ pc = "parse"

\* for i in range(count): ... scraped_jobs_on_page.append(job_item)
CardExtracted ==
    /\ pc = "cards"
    /\ card_i < count
    /\ \E offer \in Offers :
          /\ Extracts(strategy, offer)
          /\ card_log' = Append(card_log, offer)
          /\ raw_salary_text' = Append(raw_salary_text, SalaryField(offer))
    /\ scraped_jobs_on_page' =
           Append(scraped_jobs_on_page, JobItem(site_name, page_number, card_i))
    /\ card_i' = card_i + 1
    /\ UNCHANGED <<pc, result, orchVars, browserVars, safety_limit, page_number,
                   nav_log, page_results, count, failed_cards, card_faults,
                   jobs_found_on_page, yield_idx, all_scraped_jobs, yielded,
                   queueVars, batchVars, failed_send, imported, constructed, raised,
                   strategy, config_keys>>

\* a locator call raises inside the try: except Exception: continue
CardSkipped ==
    /\ pc = "cards"
    /\ card_i < count
    /\ \E offer \in Offers :
          /\ ~Extracts(strategy, offer)
          /\ card_log' = Append(card_log, offer)
    /\ failed_cards' = failed_cards \cup {card_i}
    /\ card_i' = card_i + 1
    /\ UNCHANGED <<pc, result, orchVars, browserVars, safety_limit, page_number,
                   nav_log, page_results, count, card_faults, scraped_jobs_on_page,
                   jobs_found_on_page, yield_idx, all_scraped_jobs, yielded,
                   queueVars, batchVars, failed_send, imported, constructed, raised,
                   strategy, config_keys, raw_salary_text>>

\* return scraped_jobs_on_page
CardsReturn ==
    /\ pc = "cards"
    /\ card_i = count
    /\ jobs_found_on_page' = scraped_jobs_on_page
    /\ pc' = "parsed"
    /\ UNCHANGED <<result, orchVars, browserVars, safety_limit, page_number, nav_log,
                   page_results, count, card_i, failed_cards, card_faults,
                   scraped_jobs_on_page, yield_idx, all_scraped_jobs, yielded,
                   queueVars, batchVars, failed_send, auxVars>>

NextCard ==
    \/ CountCards(MaxCardsC)
    \/ CardExtracted
    \/ CardSkipped
    \/ CardsReturn

SpecCard == InitCard /\ [][NextCard]_vars

(***************************************************************************)
(* The JobItem that _parse_page of scraper_core/spiders/internshala.py     *)
(* builds from a card, field by field.  A text is the sequence of its      *)
(* characters, a URL the sequence of its parts; a card element that is not *)
(* on the page makes the locator call that reads it raise a timeout error. *)
(***************************************************************************)
MaxCardsR == 1
MaxTitleLen == 1
MaxLocations == 1

\* the element is not on the card
Missing == <<"missing">>

\* get_attribute returns None: the anchor has no href
None == <<"none">>

\* the texts of at most n characters, blank or not
Texts(n) == UNION {[1..k -> {" ", "a"}] : k \in 0..n}

\* what a card shows: the text of the title anchor and its href (root-relative,
\* relative, or none), the company text, the texts of the location anchors and
\* the salary text
Cards ==
    [title : Texts(MaxTitleLen) \cup {Missing},
     href : {None, <<"/", "job">>, <<"job">>},
     company : {Missing, <<>>, <<"a">>},
     locations : UNION {[1..k -> {<<"a">>}] : k \in 0..MaxLocations},
     salary : {Missing, <<"a">>}]

\* str.strip()
RECURSIVE LStrip(_)
LStrip(t) == IF t # <<>> /\ Head(t) = " " THEN LStrip(Tail(t)) ELSE t

RECURSIVE RStrip(_)
RStrip(t) ==
    IF t # <<>> /\ t[Len(t)] = " " THEN RStrip(SubSeq(t, 1, Len(t) - 1)) ELSE t

Strip(t) == RStrip(LStrip(t))

\* ", ".join(texts)
RECURSIVE Join(_)
Join(texts) ==
    IF texts = <<>> THEN <<>>
    ELSE IF Len(texts) = 1 THEN texts[1]
    ELSE texts[1] \o <<",", " ">> \o Join(Tail(texts))

\* f"https://internshala.com{relative_url}"
FormatUrl(href) ==
    <<"https:", "//", "internshala.com">> \o (IF href = None THEN <<"None">> ELSE href)

\* the host of a URL: what stands between "//" and the first "/"
RECURSIVE UpToSlash(_)
UpToSlash(u) ==
    IF u = <<>> \/ Head(u) = "/" THEN <<>> ELSE <<Head(u)>> \o UpToSlash(Tail(u))

Host(u) == UpToSlash(SubSeq(u, 3, Len(u)))

\* pydantic's HttpUrl accepts the string: http or https, "//", a host
ValidHttpUrl(u) ==
    /\ Len(u) >= 3
    /\ u[1] \in {"http:", "https:"}
    /\ u[2] = "//"
    /\ Host(u) # <<>>

\* the try block of the card loop runs to its end: every locator call finds
\* its element and the JobItem validates
Builds(card) ==
    /\ card.title # Missing
    /\ card.company # Missing
    /\ card.salary # Missing
    /\ ValidHttpUrl(FormatUrl(card.href))

\* JobItem(title=..., company_name=..., location=..., raw_salary_text=...,
\*         original_url=..., source=self.site_name)
BuiltItem(card) ==
    [title |-> Strip(card.title),
     company_name |-> card.company,
     location |-> Join(card.locations),
     raw_salary_text |-> Strip(card.salary),
     original_url |-> FormatUrl(card.href),
     source |-> "internshala"]

\* a call of _parse_page on a page that shows cards
InitRecord ==
    /\ InitCommon
    /\ strategy = "scraper_core"
    /\ entry = "function_app"
    /\ fqdn = TRUE
    /\ sites_to_scrape = <<1>>
    /\ config_keys = {1}
    /\ safety_limit = 1
    /\ jobs = <<>>
    /\ pc = "parse"

\* for i in range(count): ... scraped_jobs_on_page.append(job_item)
RecordBuilt ==
    /\ pc = "cards"
    /\ card_i < count
    /\ \E card \in Cards :
          /\ Builds(card)
          /\ card_log' = Append(card_log, card)
          /\ scraped_jobs_on_page' = Append(scraped_jobs_on_page, BuiltItem(card))
    /\ card_i' = card_i + 1
    /\ UNCHANGED <<pc, result, orchVars, browserVars, safety_limit, page_number,
                   nav_log, page_results, count, failed_cards, card_faults,
                   jobs_found_on_page, yield_idx, all_scraped_jobs, yielded,
                   queueVars, batchVars, failed_send, imported, constructed, raised,
                   strategy, config_keys, raw_salary_text>>

\* except Exception: continue
RecordSkipped ==
    /\ pc = "cards"
    /\ card_i < count
    /\ \E card \in Cards :
          /\ ~Builds(card)
          /\ card_log' = Append(card_log, card)
    /\ failed_cards' = failed_cards \cup {card_i}
    /\ card_i' = card_i + 1
    /\ UNCHANGED <<pc, result, orchVars, browserVars, safety_limit, page_number,
                   nav_log, page_results, count, card_faults, scraped_jobs_on_page,
                   jobs_found_on_page, yield_idx, all_scraped_jobs, yielded,
                   queueVars, batchVars, failed_send, imported, constructed, raised,
                   strategy, config_keys, raw_salary_text>>

NextRecord ==
    \/ CountCards(MaxCardsR)
    \/ RecordBuilt
    \/ RecordSkipped
    \/ CardsReturn

SpecRecord == InitRecord /\ [][NextRecord]_vars

(***************************************************************************)
(* The three entry points side by side: a run of ScheduledScraper          *)
(* (function_app.py) or of main (run_scraper.py) from its pre-flight check *)
(* to its end, dispatch included, or a run of main of run.py.              *)
(***************************************************************************)
\* main of run.py, called with site names that are configured or not (3)
InitRun ==
    /\ InitCommon
    /\ strategy = "jobvago_scraper"
    /\ entry = "run"
    /\ fqdn \in BOOLEAN
    /\ config_keys = CliSitesConfig
    /\ sites_to_scrape \in UNION {[1..n -> CliSitesConfig \cup {3}] : n \in 1..MaxSitesL}
    /\ safety_limit = 1
    /\ jobs = <<>>
    /\ pc = "cli_loop"

InitEntries == InitLive \/ InitRun

\* the steps of the two batching loops are told apart by the entry point
NextEntries ==
    \/ NextLive
    \/ SendOpen({MaxCapacity})
    \/ SendOpenFails
    \/ AddFits(1)
    \/ AddOverflow(1)
    \/ entry \in Entries /\ SendMessagesFails(1)
    \/ entry \in Entries /\ FinalFlush
    \/ entry = "run" /\ CliSendMessagesFails
    \/ entry = "run" /\ CliFinalFlush
    \/ CliStartSite
    \/ FactoryStep
    \/ CliFactoryReturned
    \/ CliLaunch
    \/ CliLaunchRaises
    \/ CliDiscoverRaises
    \/ CliDiscoverYields
    \/ CliSiteReturn
    \/ CliSendNoFqdn
    \/ CliSendOpen(1..MaxCapacity)
    \/ CliSendOpenFails
    \/ CliSiteFinished
    \/ CliSiteRaised
    \/ CliEnd

SpecEntries == InitEntries /\ [][NextEntries]_vars

(***************************************************************************)
(* A run of a scheduled orchestrator over two configured sites: the call   *)
(* of discover_jobs for the second site follows the one for the first.     *)
(* The run is followed up to the call of send_jobs_to_queue.               *)
(***************************************************************************)
InitTwoSites ==
    /\ InitCommon
    /\ strategy = "scraper_core"
    /\ pc = "preflight"
    /\ entry \in Entries
    /\ fqdn \in BOOLEAN
    /\ sites_to_scrape = <<1, 2>>
    /\ safety_limit \in 1..MaxPageLimitL
    /\ jobs = <<>>
    /\ config_keys = {sites_to_scrape[k] : k \in DOMAIN sites_to_scrape}

SpecTwoSites == InitTwoSites /\ [][NextLive]_vars

(***************************************************************************)
(* Properties.                                                             *)
(***************************************************************************)
EnvelopeJobs(batch) == [k \in 1..Len(batch) |-> batch[k].job]

\* the records transmitted so far, in send order
Transmitted == Flatten([k \in 1..Len(sent) |-> EnvelopeJobs(sent[k])])

\* the pre-flight check has completed successfully
PreflightPassed == client # "none" /\ pc \notin {"preflight", "preflight_open"}

\* the site loop has run to its end
LoopEnded == PreflightPassed /\ site_idx > Len(sites_to_scrape)

\* the records of the sites 1..n whose summary entry is a count
RecordsOfCompleted(n) ==
    Flatten([k \in 1..n |->
        IF k \in DOMAIN scraping_summary /\ scraping_summary[k].kind = "ok"
        THEN yielded[k] ELSE <<>>])

\* C1 (SpecBatch): no transmitted envelope exceeds the capacity; while the
\* batching loop runs, the envelopes sent so far followed by the current
\* batch are exactly the records consumed so far, in order; and when
\* send_jobs_to_queue returns, the concatenation of the envelopes in send
\* order is the input list: nothing dropped, duplicated or reordered.
C1_BatchCompleteness ==
    /\ \A k \in 1..Len(sent) : SumBytes(sent[k]) <= capacity
    /\ pc = "batch" =>
          Transmitted \o EnvelopeJobs(current_batch) = SubSeq(jobs, 1, job_idx - 1)
    /\ pc = "summary" => Transmitted = jobs

C1_Witness ==
    /\ pc = "summary"
    /\ Len(jobs) >= 4
    /\ Len(sent) >= 2
    /\ \E k \in 1..Len(sent) : Len(sent[k]) >= 2
    /\ Transmitted = jobs

\* C2 (Spec): once the pre-flight check has passed, the sites attempted so far
\* are a prefix of the configured sites, in configuration order and each once;
\* every attempt that is over has its summary entry; the run never ends before
\* the last site was attempted, whatever the earlier sites raised.
C2_EverySiteAttempted ==
    /\ Len(attempted) <= Len(sites_to_scrape)
    /\ attempted = SubSeq(sites_to_scrape, 1, Len(attempted))
    /\ PreflightPassed =>
          /\ DOMAIN scraping_summary = {sites_to_scrape[k] : k \in 1..(site_idx - 1)}
          /\ Len(attempted) \in {site_idx - 1, site_idx}
          /\ pc \in {"send_open", "batch", "summary", "done"} =>
                attempted = sites_to_scrape

C2_Witness ==
    /\ pc = "done"
    /\ result = "completed"
    /\ Len(sites_to_scrape) = 2
    /\ attempted = sites_to_scrape
    /\ scraping_summary[1].kind = "error"
    /\ scraping_summary[2].kind = "ok"

\* C3 (Spec): the collected stream is at every moment the concatenation, in site
\* order, of what each completed site yielded, in the order it yielded it; the
\* list handed to send_jobs_to_queue is that stream after the last site.
C3_DispatchedStream ==
    /\ pc \notin {"preflight", "preflight_open"} =>
          all_jobs_collected = RecordsOfCompleted(site_idx - 1)
    /\ pc \in {"send_open", "batch"} =>
          /\ site_idx > Len(sites_to_scrape)
          /\ jobs = RecordsOfCompleted(Len(sites_to_scrape))

C3_Witness ==
    /\ pc = "send_open"
    /\ Len(sites_to_scrape) = 2
    /\ scraping_summary[1].kind = "ok"
    /\ scraping_summary[2].kind = "error"
    /\ yielded[2] # <<>>
    /\ Len(jobs) = 2
    /\ jobs = yielded[1]

\* C4 (Spec): nothing is attempted, opened or sent before the pre-flight check
\* has passed; a run whose pre-flight check failed has attempted no site, has
\* sent nothing, has written no summary and has ended in failure.
C4_PreflightFirst ==
    /\ (attempted # <<>> \/ browser # "none" \/ sent # <<>> \/ jobs # <<>>) =>
          (fqdn /\ PreflightPassed)
    /\ (pc = "done" /\ client = "none") =>
          /\ result = "failed"
          /\ attempted = <<>>
          /\ browser = "none"
          /\ sent = <<>>
          /\ ~summary_logged

C4_Witness ==
    /\ pc = "done"
    /\ client = "none"
    /\ ~fqdn
    /\ result = "failed"
    /\ Len(sites_to_scrape) = 2

\* the generator of discover_jobs has left its loop and has not raised
DiscoverEnding == pc \in {"close_page", "close_browser", "site_return"}

\* the page numbers 1..n
Pages(n) == [k \in 1..n |-> k]

\* record r1 comes before r2 in page order, then card order
Before(r1, r2) == r1[2] < r2[2] \/ (r1[2] = r2[2] /\ r1[3] < r2[3])

InOrder(records) ==
    \A a, b \in 1..Len(records) : a < b => Before(records[a], records[b])

\* C5 (SpecDiscover): once a page has given no valid record, no further page is
\* fetched or parsed: that page is the last one navigated to, every page before
\* it gave records, and the records emitted are exactly those of the pages
\* before it, in page order then card order.  Page yields [5, 5, 0] give 10
\* records and 3 fetched pages.
C5_StopsAtFirstEmptyPage ==
    LET k == Len(page_results) IN
    (k > 0 /\ page_results[k] = <<>>) =>
        /\ DiscoverEnding
        /\ nav_log = Pages(k)
        /\ \A j \in 1..(k - 1) : page_results[j] # <<>>
        /\ yielded[site_name] = Flatten(SubSeq(page_results, 1, k - 1))
        /\ all_scraped_jobs = yielded[site_name]
        /\ InOrder(yielded[site_name])
        /\ \A j \in 1..Len(yielded[site_name]) : yielded[site_name][j][2] < k

C5_Witness ==
    /\ pc = "site_return"
    /\ Len(page_results) = 3
    /\ Len(page_results[1]) = 5
    /\ Len(page_results[2]) = 5
    /\ page_results[3] = <<>>
    /\ Len(all_scraped_jobs) = 10
    /\ nav_log = <<1, 2, 3>>

\* C6 (SpecDiscover): no navigation goes to a page beyond the page limit; when
\* the discovery ends after every page it navigated to gave at least one
\* record, it has fetched exactly the pages 1..page limit and has emitted the
\* records of all of them.
C6_PageLimit ==
    /\ \A j \in 1..Len(nav_log) : nav_log[j] <= safety_limit
    /\ (/\ DiscoverEnding
        /\ Len(page_results) = Len(nav_log)
        /\ \A j \in 1..Len(page_results) : page_results[j] # <<>>) =>
          /\ nav_log = Pages(safety_limit)
          /\ yielded[site_name] = Flatten(page_results)

C6_Witness ==
    /\ pc = "site_return"
    /\ safety_limit = 3
    /\ nav_log = <<1, 2, 3>>
    /\ Len(page_results) = 3
    /\ \A j \in 1..3 : Len(page_results[j]) >= 1
    /\ Len(all_scraped_jobs) >= 3

\* the last navigation failed: discover_jobs left its loop with a page
\* navigated to and not parsed
NavFailed == DiscoverEnding /\ Len(nav_log) = Len(page_results) + 1

\* C7 (SpecDiscover): a step taken at the head of the pagination loop never
\* leaves discover_jobs by an exception; after a failed navigation to page k the
\* pages fetched are 1..k, the consumer holds the records of the pages before
\* k, nothing more is fetched or emitted, and the call returns into a summary
\* entry that is a success with that record count, the records being added to
\* the collection.
C7_NavFailureEndsNormally ==
    /\ [](NavFailed =>
            /\ nav_log = Pages(Len(nav_log))
            /\ all_scraped_jobs = Flatten(page_results)
            /\ yielded[site_name] = all_scraped_jobs)
    /\ [][/\ pc = "loop" => pc' \in {"parse", "close_page"}
          /\ NavFailed =>
               \/ /\ pc' \in {"close_browser", "site_return"}
                  /\ UNCHANGED <<nav_log, page_results, all_scraped_jobs, yielded,
                                 scraping_summary, all_jobs_collected>>
               \/ /\ pc = "site_return"
                  /\ pc' = "site_loop"
                  /\ scraping_summary' =
                        DictSet(scraping_summary, site_name, OkEntry(Len(all_scraped_jobs)))
                  /\ all_jobs_collected' = all_jobs_collected \o all_scraped_jobs
                  /\ yielded' = yielded]_vars

C7_Witness ==
    /\ NavFailed
    /\ pc = "site_return"
    /\ nav_log = <<1, 2, 3>>
    /\ Len(all_scraped_jobs) >= 2

\* the records of the cards 0..n-1 of the current page that did not fail
RECURSIVE Kept(_)
Kept(n) ==
    IF n = 0 THEN <<>>
    ELSE IF (n - 1) \in failed_cards THEN Kept(n - 1)
    ELSE Append(Kept(n - 1), JobItem(site_name, page_number, n - 1))

\* C9 (SpecDiscover): while a page is parsed, the records gathered are exactly
\* those of the cards seen so far that did not raise, in card order; the card
\* loop is left only after the last card, and _parse_page then returns the
\* records of all the cards that did not raise.
C9_FailingCardSkipped ==
    /\ [](pc = "cards" => scraped_jobs_on_page = Kept(card_i))
    /\ [][(pc = "cards" /\ pc' # "cards") =>
            /\ card_i = count
            /\ jobs_found_on_page' = Kept(count)
            /\ page_results' = Append(page_results, Kept(count))]_vars

C9_Witness ==
    /\ pc = "cards"
    /\ count = 5
    /\ card_i = 5
    /\ failed_cards = {2}
    /\ Len(scraped_jobs_on_page) = 4
    /\ scraped_jobs_on_page[3][3] = 3

RECURSIVE SumOk(_)
SumOk(n) ==
    IF n = 0 THEN 0
    ELSE SumOk(n - 1) + (IF scraping_summary[n].kind = "ok" THEN scraping_summary[n].count ELSE 0)

\* C10 (Spec): an attempt that returns puts the count of the records the site
\* yielded in the summary, an attempt that raises puts an error marker there;
\* when the site loop has ended the summary has one entry for each configured
\* site, the total (the length of the collection) is the sum of the counts, and
\* a dispatch that returned has transmitted exactly that many records.
C10_Summary ==
    /\ [](LoopEnded =>
            /\ DOMAIN scraping_summary = DOMAIN sites_to_scrape
            /\ Len(all_jobs_collected) = SumOk(Len(sites_to_scrape))
            /\ pc \in {"send_open", "batch"} => Len(jobs) = Len(all_jobs_collected)
            /\ (pc = "summary" \/ result = "completed") =>
                  Len(Transmitted) = Len(all_jobs_collected))
    /\ [][(pc \in {"factory", "launch", "new_page", "loop", "parse", "cards",
                   "yield", "close_page", "close_browser", "site_return"}
           /\ pc' \in {"site_loop", "done"}) =>
            /\ pc' = "site_loop"
            /\ site_idx' = site_idx + 1
            /\ scraping_summary' =
                  DictSet(scraping_summary, site_name,
                          IF pc = "site_return"
                          THEN OkEntry(Len(yielded[site_name]))
                          ELSE ErrorEntry)]_vars

C10_Witness ==
    /\ pc = "done"
    /\ result = "completed"
    /\ Len(sites_to_scrape) = 2
    /\ scraping_summary[1].kind = "error"
    /\ scraping_summary[2] = OkEntry(2)
    /\ Len(all_jobs_collected) = 2
    /\ Len(Transmitted) = 2

\* C8 (SpecDiscover), as claimed: a call of discover_jobs acquires one page and
\* every way out of the call closes it, so no page is ever left to be torn
\* down with the browser.
C8_PageClosedOnEveryExit ==
    /\ pages_acquired <= 1
    /\ page # "killed"
    /\ pc \in {"close_browser", "site_return"} => (page = "closed" /\ pages_acquired = 1)

\* every message handed to the transport so far has the size s
UniformSize(s) ==
    /\ \A k \in 1..Len(sent) : \A j \in 1..Len(sent[k]) : sent[k][j].bytes = s
    /\ \A j \in 1..Len(current_batch) : current_batch[j].bytes = s

CeilDiv(n, c) == (n + c - 1) \div c

\* C11 (SpecBatch): when the records all have one size, so that an envelope
\* holds C of them, every envelope sent before the input is exhausted holds
\* exactly C records, and when send_jobs_to_queue returns it has sent
\* ceil(N/C) envelopes of which only the last may hold fewer than C; an
\* envelope is passed to send only as the current envelope at the moment the
\* next record is rejected by it, or when the input is exhausted.
C11_EnvelopeCount ==
    /\ [](\A s \in 1..MaxJsonBytes :
            LET C == capacity \div s
                N == Len(jobs)
            IN  (UniformSize(s) /\ C >= 1 /\ pc \in {"batch", "summary"}) =>
                  /\ pc = "batch" => \A k \in 1..Len(sent) : Len(sent[k]) = C
                  /\ pc = "summary" =>
                        /\ Len(sent) = CeilDiv(N, C)
                        /\ \A k \in 1..(Len(sent) - 1) : Len(sent[k]) = C
                        /\ N > 0 => Len(sent[Len(sent)]) = N - C * (Len(sent) - 1))
    /\ [][sent' # sent =>
            /\ sent' = Append(sent, current_batch)
            /\ \/ job_idx > Len(jobs)
               \/ /\ current_batch' # <<>>
                  /\ current_batch'[1].job = jobs[job_idx]
                  /\ ~Fits(current_batch, current_batch'[1].bytes)
               \/ /\ pc' = "done"
                  /\ result' = "failed"]_vars

C11_Witness ==
    /\ pc = "summary"
    /\ capacity = 3
    /\ Len(jobs) = 7
    /\ UniformSize(1)
    /\ [k \in 1..Len(sent) |-> Len(sent[k])] = <<3, 3, 1>>

\* the positions of the run once send_jobs_to_queue was entered or skipped
PastDispatchCall == {"batch", "summary", "done"}

\* C12 (Spec): send_jobs_to_queue is entered only from the end of the site
\* loop, with every configured site attempted, a non-empty collection as its
\* argument and no dispatch before it, and once the run is past the site loop
\* it never enters it again; with an empty collection the run goes from the
\* site loop to the summary without touching the transport, and ends completed
\* with its summary written, nothing sent and no sender opened for dispatch.
C12_DispatchOnceAfterAllSites ==
    /\ [][(pc' = "send_open" /\ pc # "send_open") =>
            /\ pc = "site_loop"
            /\ site_idx > Len(sites_to_scrape)
            /\ attempted = sites_to_scrape
            /\ all_jobs_collected # <<>>
            /\ jobs' = all_jobs_collected
            /\ job_idx = 0
            /\ capacity = 0
            /\ sent = <<>>]_vars
    /\ [][(pc \in PastDispatchCall) => (pc' \in PastDispatchCall)]_vars
    /\ [][(pc = "site_loop" /\ site_idx > Len(sites_to_scrape) /\ all_jobs_collected = <<>>) =>
            /\ pc' = "summary"
            /\ UNCHANGED <<client, sender, sent, jobs, capacity, job_idx>>]_vars
    /\ []((PreflightPassed /\ all_jobs_collected = <<>> /\ pc \in {"summary", "done"}) =>
            /\ sent = <<>>
            /\ jobs = <<>>
            /\ capacity = 0
            /\ sender = (IF entry = "function_app" THEN "closed" ELSE "none")
            /\ pc = "done" => (result = "completed" /\ summary_logged))

C12_Witness ==
    /\ pc = "done"
    /\ result = "completed"
    /\ summary_logged
    /\ Len(sites_to_scrape) = 2
    /\ scraping_summary[1] = OkEntry(0)
    /\ scraping_summary[2].kind = "error"
    /\ all_jobs_collected = <<>>
    /\ sent = <<>>
    /\ capacity = 0

\* C13 (SpecFactory), as claimed: whichever entry point's factory is called
\* with a site id that is not a key of SITES_CONFIG, the call imports no
\* module, constructs no instance and ends by raising the configuration error
\* (the ValueError "Unknown site") that names the id.
C13_UnknownSiteIsConfigurationError ==
    (site_name \notin config_keys) =>
        /\ imported = <<>>
        /\ constructed = <<>>
        /\ pc \in {"fac_check", "fac_lookup", "fac_raised"}
        /\ pc = "fac_raised" => raised = Error("ValueError", site_name)

\* C14 (SpecCli), as claimed: the sites attempted are a prefix of the sites
\* requested, and a run that was not ended by the transport has attempted
\* every requested site: no failure of resolving a site or of running its
\* discovery ends the run.
C14_OneBadSiteNeverAborts ==
    /\ Len(attempted) <= Len(sites_to_scrape)
    /\ attempted = SubSeq(sites_to_scrape, 1, Len(attempted))
    /\ (pc = "done" /\ raised.type # "ServiceBusError") =>
          /\ attempted = sites_to_scrape
          /\ result = "completed"

\* C15 (SpecCli), as claimed: with the queue endpoint address unset no site is
\* attempted, no browser is launched, and the run does not end as completed.
C15_NoEndpointAbortsBeforeSites ==
    ~fqdn =>
        /\ attempted = <<>>
        /\ browser = "none"
        /\ result # "completed"

\* C16 (Spec): a run of run_scraper.py's main that has ended has ended
\* completed (exit status 0) exactly when its pre-flight check passed and
\* everything it collected was transmitted (nothing, when dispatch was
\* skipped), whatever the summary holds; the run turns to failure (exit(1))
\* only in a step of the pre-flight check or of send_jobs_to_queue, never in a
\* step of the site loop.
C16_ExitStatus ==
    /\ []((entry = "run_scraper" /\ pc = "done") =>
            /\ result \in {"completed", "failed"}
            /\ result = "completed" <=>
                  (client # "none" /\ Transmitted = all_jobs_collected /\ failed_send = <<>>))
    /\ [][(entry = "run_scraper" /\ result' = "failed" /\ result # "failed") =>
            pc \in {"preflight", "send_open", "batch"}]_vars

C16_Witness ==
    /\ entry = "run_scraper"
    /\ pc = "done"
    /\ result = "completed"
    /\ Len(sites_to_scrape) = 2
    /\ scraping_summary[1].kind = "error"
    /\ scraping_summary[2].kind = "error"

\* C17 (SpecBatch): a failure to open the transport ends the run failed with
\* nothing sent; a send that raises ends the run failed in that very step,
\* without transmitting the envelope; at most one send ever fails, nothing is
\* sent after it, and the envelopes sent followed by the failed one are a
\* prefix of the input, so no envelope was passed to send twice.
C17_NoRetry ==
    /\ [](Len(failed_send) <= 1)
    /\ [](Transmitted = SubSeq(jobs, 1, Len(Transmitted)))
    /\ [](failed_send # <<>> =>
            LET e == EnvelopeJobs(failed_send[1]) IN
            /\ pc = "done"
            /\ result = "failed"
            /\ Transmitted \o e = SubSeq(jobs, 1, Len(Transmitted) + Len(e)))
    /\ [][(pc = "send_open" /\ pc' = "done") =>
            (result' = "failed" /\ sent' = <<>>)]_vars
    /\ [][failed_send' # failed_send =>
            /\ failed_send' = Append(failed_send, current_batch)
            /\ pc' = "done"
            /\ result' = "failed"
            /\ sent' = sent]_vars
    /\ [][failed_send # <<>> => sent' = sent]_vars

C17_Witness ==
    /\ entry = "run_scraper"
    /\ pc = "done"
    /\ result = "failed"
    /\ Len(sent) = 1
    /\ Len(failed_send) = 1
    /\ Len(failed_send[1]) = 2

\* C18 (Spec), as claimed: a run that passed the pre-flight check and has ended
\* has written its final summary, whatever the sites and the dispatch did.
C18_SummaryAlwaysEmitted ==
    (pc = "done" /\ client # "none") => summary_logged

\* the positions inside a call of run_scraper_for_site
InSite == {"factory", "launch", "new_page", "loop", "parse", "cards", "yield",
           "close_page", "close_browser", "site_return"}

\* C19 (SpecLive): a call of discover_jobs navigates at most page_limit times,
\* to the pages 1, 2, ... in turn, and has yielded at most as many records as
\* the pages it parsed hold; and every attempt of a site, whatever the pages
\* and cards do, is eventually over, with the site loop at the next site.
C19_DiscoverTerminates ==
    /\ [](/\ Len(nav_log) <= safety_limit
          /\ nav_log = Pages(Len(nav_log))
          /\ Len(all_scraped_jobs) <= Len(Flatten(page_results)))
    /\ \A s \in 1..MaxSitesL :
          (pc \in InSite /\ site_idx = s) ~> (pc = "site_loop" /\ site_idx = s + 1)

C19_Witness ==
    /\ pc = "site_loop"
    /\ site_idx = 2
    /\ scraping_summary[1] = OkEntry(2)
    /\ safety_limit = 2

\* C20 (SpecCard), as claimed: in either strategy a card that offers all its
\* required fields and no salary text is not skipped: the page's records hold
\* one for it, with raw_salary_text absent.
C20_MissingSalaryKeepsCard ==
    \A k \in 1..Len(card_log) :
        (card_log[k].required /\ ~card_log[k].salary) =>
            /\ (k - 1) \notin failed_cards
            /\ \E j \in 1..Len(scraped_jobs_on_page) :
                  /\ scraped_jobs_on_page[j][3] = k - 1
                  /\ raw_salary_text[j] = "None"

\* RFC 3986 reference resolution of a link against a base URI that has an
\* empty path
Resolve(base, href) ==
    IF Head(href) = "/" THEN base \o href ELSE base \o <<"/">> \o href

\* C21 (SpecRecord), as claimed: every record _parse_page gathers or returns
\* has a non-empty title and company name, a location and a source that are
\* not empty, and an original_url that is well formed and is the link of one
\* of the page's cards resolved against https://internshala.com.
C21_RecordsWellFormed ==
    \A r \in {scraped_jobs_on_page[j] : j \in 1..Len(scraped_jobs_on_page)}
            \cup {jobs_found_on_page[j] : j \in 1..Len(jobs_found_on_page)} :
        /\ r.title # <<>>
        /\ r.company_name # <<>>
        /\ r.location # <<>>
        /\ r.source # ""
        /\ ValidHttpUrl(r.original_url)
        /\ \E k \in 1..Len(card_log) :
              /\ card_log[k].href # None
              /\ r.original_url =
                    Resolve(<<"https:", "//", "internshala.com">>, card_log[k].href)

\* C22 (SpecBatch): once the input is exhausted the next step leaves the
\* batching loop, and it passes the remaining envelope to send exactly when
\* that envelope holds a message (batch_msg_count counts its messages in
\* function_app.py), once, and nothing is passed to send afterwards; a call
\* that returned on a non-empty input has sent the last record in its last
\* envelope, a call on an empty input has sent nothing.  An empty envelope is
\* passed to send only in a step that ends the call in failure, on a record
\* that the empty envelope rejects; when every record fits an envelope, no
\* envelope passed to send is empty.
C22_FinalFlushOnce ==
    /\ []((entry = "function_app" /\ pc = "batch") =>
             batch_msg_count = Len(current_batch))
    /\ [][(pc = "batch" /\ job_idx > Len(jobs)) =>
            /\ pc' # "batch"
            /\ IF current_batch # <<>>
               THEN \/ sent' = Append(sent, current_batch) /\ failed_send' = failed_send
                    \/ sent' = sent /\ failed_send' = Append(failed_send, current_batch)
               ELSE sent' = sent /\ failed_send' = failed_send]_vars
    /\ [][(pc \in {"summary", "done"}) =>
            (sent' = sent /\ failed_send' = failed_send)]_vars
    /\ [](pc = "summary" =>
            IF jobs = <<>> THEN sent = <<>>
            ELSE LET e == sent[Len(sent)] IN
                 e # <<>> /\ e[Len(e)].job = jobs[Len(jobs)])
    /\ [][((sent' # sent \/ failed_send' # failed_send) /\ current_batch = <<>>) =>
            /\ job_idx <= Len(jobs)
            /\ ~Fits(<<>>, MaxJsonBytes)
            /\ pc' = "done"
            /\ result' = "failed"]_vars
    /\ [](Fits(<<>>, MaxJsonBytes) =>
            /\ \A k \in 1..Len(sent) : sent[k] # <<>>
            /\ \A k \in 1..Len(failed_send) : failed_send[k] # <<>>)

C22_Witness ==
    /\ pc = "summary"
    /\ Fits(<<>>, MaxJsonBytes)
    /\ Len(jobs) = 3
    /\ Len(sent) = 2
    /\ Len(sent[2]) = 1
    /\ sent[2][1].job = jobs[3]

\* the records that were extracted from their cards and have not been
\* delivered to the consumer of discover_jobs
Undelivered ==
    IF pc = "cards" THEN scraped_jobs_on_page
    ELSE IF pc = "yield" THEN SubSeq(jobs_found_on_page, yield_idx, Len(jobs_found_on_page))
    ELSE <<>>

\* C23 (SpecDiscover), as claimed: at no moment is more than one extracted
\* record waiting for its delivery to the consumer, so no card is extracted
\* while an earlier card's record is undelivered; and when discover_jobs
\* navigates, the consumer holds every record of the pages parsed so far.
C23_EmittedAsSoonAsExtracted ==
    /\ Len(Undelivered) <= 1
    /\ pc = "loop" => all_scraped_jobs = Flatten(page_results)

\* C24 (SpecTwoSites): in every call of discover_jobs the pages navigated to are
\* 1, 2, 3, ... in this order, none skipped and none twice: at the head of
\* the loop the page number is one more than the number of navigations of
\* this call, and while a page is parsed or its records are yielded it is the
\* page navigated to last.  Every page before the last one navigated to was
\* parsed, gave at least one record, and had all its records delivered.  A
\* call that has not acquired its page holds no pagination state of an
\* earlier call, so the call for a later site starts at page 1 as well.
C24_PagesInOrder ==
    /\ nav_log = Pages(Len(nav_log))
    /\ pc = "loop" => page_number = Len(nav_log) + 1
    /\ pc \in {"parse", "cards", "yield"} => page_number = Len(nav_log)
    /\ \A k \in 1..(Len(nav_log) - 1) :
          /\ k <= Len(page_results)
          /\ page_results[k] # <<>>
    /\ Len(nav_log) > 1 =>
          LET delivered == Flatten(SubSeq(page_results, 1, Len(nav_log) - 1))
          IN  /\ Len(delivered) <= Len(all_scraped_jobs)
              /\ delivered = SubSeq(all_scraped_jobs, 1, Len(delivered))
    /\ pc \in {"site_loop", "factory", "launch", "new_page"} =>
          (nav_log = <<>> /\ page_number = 0 /\ page_results = <<>>)

C24_Witness ==
    /\ Len(sites_to_scrape) = 2
    /\ site_idx = 2
    /\ scraping_summary[1] = OkEntry(2)
    /\ safety_limit = 2
    /\ pc = "parse"
    /\ nav_log = <<1, 2>>
    /\ page_number = 2
    /\ Len(all_scraped_jobs) = 1

\* C25 (SpecEntries): in each of the three entry points, no queue client or
\* sender is open while a browser or a page is open; while a site is being
\* scraped by a scheduled orchestrator the pre-flight connection is closed;
\* and while the dispatch connection is open every browser and page of the
\* run has been closed or torn down, the sites whose records are dispatched
\* having returned.
C25_TransportAndBrowserDisjoint ==
    /\ (client = "open" \/ sender = "open") => (browser # "open" /\ page # "open")
    /\ (entry \in Entries /\ pc \in InSite) => (client = "closed" /\ sender # "open")
    /\ (entry \in Entries /\ browser # "none") => client # "none"
    /\ pc = "batch" =>
          /\ browser \in {"closed", "killed"}
          /\ page \in {"none", "closed", "killed"}
          /\ entry \in Entries => site_idx > Len(sites_to_scrape)
          /\ \A j \in 1..Len(jobs) : jobs[j][1] \in
                {sites_to_scrape[k] : k \in 1..(IF entry = "run" THEN site_idx ELSE site_idx - 1)}

C25_Witness ==
    /\ entry = "function_app"
    /\ pc = "batch"
    /\ client = "open"
    /\ sender = "open"
    /\ browser = "closed"
    /\ page = "closed"
    /\ Len(jobs) >= 1

\* the positions at which discover_jobs navigates its page or queries it
OnPage == {"loop", "parse", "cards", "yield", "close_page"}

\* C26 (SpecTwoSites): a call of discover_jobs holds at most one page; a page is open
\* only inside the call that acquired it, in the open browser of the site
\* being attempted, and every navigation and element query of the call is
\* made at a position where its page is open, none after the page was
\* closed; when the site loop resolves the strategy of a site and launches
\* its browser, no browser and no page is open: those of the earlier site
\* were closed, or torn down if its discovery raised.
C26_SitesStrictlySequential ==
    /\ pages_acquired <= 1
    /\ page = "open" =>
          /\ pc \in OnPage
          /\ browser = "open"
          /\ pages_acquired = 1
          /\ attempted[Len(attempted)] = site_name
          /\ Len(attempted) = site_idx
    /\ pc \in OnPage => page = "open"
    /\ browser = "open" => pc \in InSite
    /\ pc \in {"site_loop", "factory", "launch"} =>
          /\ browser \in {"none", "closed", "killed"}
          /\ page \in {"none", "closed", "killed"}
          /\ site_idx > 1 =>
                (scraping_summary[site_idx - 1].kind = "ok" =>
                    (browser = "closed" /\ page = "closed"))

C26_Witness ==
    /\ pc = "factory"
    /\ site_idx = 2
    /\ scraping_summary[1].kind = "error"
    /\ yielded[1] # <<>>
    /\ page = "killed"
    /\ browser = "killed"

\* the records of site s in a list of records
OfSite(records, s) == SelectSeq(records, LAMBDA r : r[1] = s)

\* no record of site s is in the list
NoneOfSite(records, s) == \A j \in 1..Len(records) : records[j][1] # s

\* C27 (SpecEntries): of each site whose attempt is over, the collected stream holds
\* either all the records the site yielded, in order, or none of them: all
\* of them when the attempt returned, its summary entry being their count,
\* and none when the attempt raised, however many records it had yielded, its
\* summary entry being the error marker; the records of a site that raised
\* are in no list handed to send_jobs_to_queue and in no envelope, and the
\* total counts only the records of the sites that returned.
C27_AllOrNothingPerSite ==
    /\ \A s \in DOMAIN scraping_summary :
          IF scraping_summary[s].kind = "ok"
          THEN /\ OfSite(all_jobs_collected, s) = yielded[s]
               /\ scraping_summary[s].count = Len(yielded[s])
          ELSE /\ scraping_summary[s] = ErrorEntry
               /\ NoneOfSite(all_jobs_collected, s)
               /\ NoneOfSite(jobs, s)
               /\ \A k \in 1..Len(sent) : NoneOfSite(EnvelopeJobs(sent[k]), s)
               /\ NoneOfSite(EnvelopeJobs(current_batch), s)
    /\ (entry \in Entries /\ LoopEnded) =>
          Len(all_jobs_collected) = SumOk(Len(sites_to_scrape))

C27_Witness ==
    /\ pc = "summary"
    /\ scraping_summary[1] = ErrorEntry
    /\ Len(yielded[1]) = 1
    /\ all_jobs_collected = <<>>
    /\ sent = <<>>

\* send_jobs_to_queue has ended by the ValueError of add_message on a new
\* envelope: the call failed although the transport was opened and no send
\* raised
OverflowRaised ==
    pc = "done" /\ result = "failed" /\ capacity > 0 /\ failed_send = <<>>

\* C28 (SpecBatch): no message larger than the capacity of an envelope is ever
\* in an envelope, and the batching loop goes past a record only by placing
\* it in the current envelope, so it never goes past a record that an empty
\* envelope rejects; the step in which the empty new envelope rejects a record
\* ends the call in failure with the record not consumed, after the envelope
\* before it was handed to send; and when the call has ended by that error,
\* the records before the oversized one have been transmitted once each, in
\* order, and nothing from the oversized record on has been or will be
\* transmitted.
C28_OversizedRecordFailsOutright ==
    /\ [](/\ \A k \in 1..Len(sent) : \A j \in 1..Len(sent[k]) : sent[k][j].bytes <= capacity
          /\ \A j \in 1..Len(current_batch) : current_batch[j].bytes <= capacity)
    /\ [][(pc = "batch" /\ job_idx' # job_idx) =>
            /\ job_idx' = job_idx + 1
            /\ current_batch' # <<>>
            /\ current_batch'[Len(current_batch')].job = jobs[job_idx]
            /\ Fits(<<>>, current_batch'[Len(current_batch')].bytes)]_vars
    /\ [][(pc = "batch" /\ job_idx <= Len(jobs) /\ pc' = "done" /\ failed_send' = failed_send) =>
            /\ result' = "failed"
            /\ ~Fits(<<>>, MaxJsonBytes)
            /\ sent' = Append(sent, current_batch)
            /\ current_batch' = <<>>
            /\ job_idx' = job_idx]_vars
    /\ [](OverflowRaised =>
            /\ job_idx <= Len(jobs)
            /\ Transmitted = SubSeq(jobs, 1, job_idx - 1)
            /\ current_batch = <<>>)
    /\ [][OverflowRaised => UNCHANGED <<sent, failed_send, job_idx, pc, result>>]_vars

C28_Witness ==
    /\ OverflowRaised
    /\ Len(jobs) = 4
    /\ job_idx = 3
    /\ Len(sent) = 2
    /\ Len(Transmitted) = 2

=============================================================================
